---- MODULE Spec2Model ----
(***************************************************************************)
(* Model of isolate/run_test_from_archive.py: the manifest loader, the     *)
(* Remote priority worker pool, the LRU Cache and run_tha_test.            *)
(*                                                                         *)
(* Four specifications share the module's variables; each one moves the    *)
(* variables of one component and leaves the others at their initial       *)
(* values:                                                                 *)
(*   SpecRemote    Remote: fetch_item, get_result, the worker threads      *)
(*   SpecCache     Cache: construction, retrieve, trim, context exit       *)
(*   SpecRun       run_tha_test: tree population, child, teardown          *)
(*   SpecManifest  load_manifest applied to bounded manifests              *)
(***************************************************************************)
EXTENDS Integers, Sequences, FiniteSets, TLC

VARIABLES
  \* ---- Remote ----
  queue,       \* self._queue: set of pending items [pri, idx, obj]
  done,        \* self._done: set of completion entries
  nextIndex,   \* the value self._next_index() returns next
  ready,       \* self._ready
  workers,     \* len(self._workers)
  wStart,      \* worker threads at the top of _run's loop
  wWait,       \* worker threads blocked in self._queue.get()
  wBusy,       \* worker threads holding an item: [st, item, startNew]
  caller,      \* the thread calling fetch_item / get_result
  attempts,    \* history: number of self._do_item calls per object
  lastOut,     \* history: how the last self._do_item call per object ended
  puts,        \* history: entries put on self._done per object
  requested,   \* history: number of fetch_item calls made
  lastResult,  \* history: what the last get_result() took and did
  lim,         \* the bounds of this run: [objs, index]
  \* ---- Cache ----
  cstate,      \* self.state: the LRU list, oldest first
  cfiles,      \* the ids with a file at cache_dir/<id>
  cjson,       \* the list saved in cache_dir/state.json
  policies,    \* self.policies
  sizes,       \* st_size of the blob of each id
  cphase,      \* "new" before Cache(...), "open", "closed" after __exit__
  lastOp,      \* history: the last call made on the Cache and its result
  prevOp,      \* history: the call made before it
  hist,        \* history: the ids retrieved into a cache that started empty
  lru,         \* history: "fill", "trimmed" or "off" (see Construct)
  \* ---- main / run_tha_test ----
  rpc,         \* the position of main / run_tha_test
  manifest,    \* the manifest run_tha_test is given
  left,        \* the entries of manifest['files'] the loop has yet to visit
  cur,         \* the entry of manifest['files'] the loop is at
  platform,    \* sys.platform
  root,        \* outdir, the tree root: "none", "present" or "removed"
  tfiles,      \* the file paths under outdir
  tdirs,       \* the directories under outdir
  child,       \* the command: whether it ran and its exit code
  pending,     \* the return value or exception passing through finally
  result,      \* what run_tha_test returned or raised
  rm,          \* rmtree: the shutil.rmtree attempts made and failed
  mainRet,     \* what main returned or raised
  \* ---- load_manifest ----
  content,     \* the manifest text handed to load_manifest
  loaded       \* how load_manifest(content) ended

remoteVars == <<queue, done, nextIndex, ready, workers, wStart, wWait, wBusy,
                caller, attempts, lastOut, puts, requested, lastResult,
                lim>>

cacheVars == <<cstate, cfiles, cjson, policies, sizes, cphase, lastOp,
               prevOp, hist, lru>>

runVars == <<rpc, manifest, left, cur, platform, root, tfiles, tdirs, child,
             pending, result, rm, mainRet>>

manifestVars == <<content, loaded>>

vars == <<remoteVars, cacheVars, runVars, manifestVars>>

\* What the actions of one component leave unchanged.
notRemoteVars == <<cacheVars, runVars, manifestVars>>
notCacheVars == <<remoteVars, runVars, manifestVars>>
notRunVars == <<remoteVars, manifestVars>>
notManifestVars == <<remoteVars, cacheVars, runVars>>

\* ------------------------------------------------------------------ bounds
\* SpecRemote: the number of objects the caller asks the Remote for, and the
\* cap on the indexes self._next_index hands out (xrange(0, 1<<31) in the
\* code): six take one request through every retry.
MaxObjs == 1
MaxIndex == 6
\* SpecFanOut: the same for a Remote asked for several objects at once; the
\* indexes leave room for one retry.
FanObjs == 2
FanIndex == 3
\* SpecRetry: two objects with room for a retry of each.
RetryObjs == 2
RetryIndex == 4
\* SpecPool: the objects asked of a Remote whose pool has grown, and the
\* indexes it may still hand out.
PoolObjs == 1
PoolIndex == 3
\* SpecCache: the number of content ids, and the largest blob size.
MaxIds == 2
MaxSize == 2
\* SpecRun: the number of entries of manifest['files'], and the largest exit
\* code of the command.
MaxFiles == 2
MaxCode == 3
\* SpecManifest: the number of keys of the manifest, and of the properties
\* of an entry of manifest['files'].
MaxKeys == 2
MaxProps == 2

\* ------------------------------------------------------- Python values
\* Python 2 compares values of different types as unequal; a value is
\* modelled with its type so that == can be computed as Python computes it.
PyInt(n) == [type |-> "int", val |-> n]
PyStr(s) == [type |-> "str", val |-> s]
PyEq(a, b) == a.type = b.type /\ a.val = b.val

RECURSIVE BitAnd(_, _)
BitAnd(a, b) ==
  IF a = 0 \/ b = 0 THEN 0
  ELSE (a % 2) * (b % 2) + 2 * BitAnd(a \div 2, b \div 2)

\* ------------------------------------------------------------- Remote
INITIAL_WORKERS == 2
MAX_WORKERS == 16
LOW == 256
MED == 512
HIGH == 768
INTERNAL_PRIORITY_BITS == 255
\* The retry limit of _run.
MAX_RETRIES == 5
\* Priority and index of an exception entry on self._done.
EXC_PRIORITY == -1
EXC_INDEX == 0

Priorities == {LOW, MED, HIGH}

\* How a call of self._do_item can end: the object is copied, IOError is
\* raised, or another exception is raised.
Outcomes == {"ok", "ioerror", "other"}

ItemDemoted(p, i, o) == [pri |-> p + 1, idx |-> i, obj |-> o]
Item(p, i, o) == [pri |-> p, idx |-> i, obj |-> o]

\* (priority, index, obj) pushed on success.
OkEntry(item) ==
  [pri |-> item.pri, idx |-> item.idx, kind |-> "obj", obj |-> item.obj,
   exc |-> "none"]

\* A failure entry that keeps the priority and index of its item.
ExcEntryKeepsPriority(item, e) ==
  [pri |-> item.pri, idx |-> item.idx, kind |-> "exc", obj |-> item.obj,
   exc |-> e]

\* (-1, 0, sys.exc_info()) pushed on failure.
ExcEntry(item, e) ==
  [pri |-> EXC_PRIORITY, idx |-> EXC_INDEX, kind |-> "exc", obj |-> item.obj,
   exc |-> e]

\* Tuple order of Queue.PriorityQueue on (priority, index).
BeforeByIndex(a, b) == a.idx < b.idx
Before(a, b) == a.pri < b.pri \/ (a.pri = b.pri /\ a.idx < b.idx)

\* The entries PriorityQueue.get() may return: those no other entry precedes.
AnyOf(S) == S
Smallest(S) == {e \in S : \A f \in S : ~Before(f, e)}

\* _run: "if (priority & self.INTERNAL_PRIORITY_BITS) < 5".
RetryAllowedOffByOne(pri) == BitAnd(pri, INTERNAL_PRIORITY_BITS) < MAX_RETRIES - 1
RetryAllowed(pri) == BitAnd(pri, INTERNAL_PRIORITY_BITS) < MAX_RETRIES

\* get_result: "if r[0] == '-1'".
IsExceptionEntry(r) == PyEq(PyInt(r.pri), PyStr("-1"))

\* get_result applied to the entry r it took from self._done.
GetResult(r) ==
  IF IsExceptionEntry(r)
    THEN [outcome |-> "raised", kind |-> r.kind, obj |-> r.obj]
    ELSE [outcome |-> "returned", kind |-> r.kind, obj |-> r.obj]

NoItem == Item(0, 0, 0)

\* The items of requests that have not completed: on self._queue, held by a
\* worker, or on their way to self._queue.
Outstanding ==
  queue
  \cup {IF w.st = "refetch" THEN w.next ELSE w.item : w \in wBusy}
  \cup (IF caller.pc = "put" THEN {caller.item} ELSE {})

\* What lastResult keeps of a get_result() that took r from self._done:
\* early, a request with a smaller (priority, index) than r's had not
\* completed; passed, r is an exception entry and self._done held the
\* entry of a success.
Taken(r) ==
  [outcome |-> GetResult(r).outcome, kind |-> r.kind, obj |-> r.obj,
   early |-> r.kind = "obj" /\ \E i \in Outstanding : Before(i, r),
   passed |-> r.kind = "exc" /\ \E f \in done : f.kind = "obj"]
Idle == [pc |-> "idle", item |-> NoItem, startNew |-> FALSE]

\* _add_worker without the test of len(self._workers).
AddWorkerNoCap(on) ==
  IF on
    THEN workers' = workers + 1 /\ wStart' = wStart + 1
    ELSE UNCHANGED <<workers, wStart>>

\* _add_worker: one more thread unless MAX_WORKERS are there already.
AddWorker(on) ==
  IF on /\ workers < MAX_WORKERS
    THEN workers' = workers + 1 /\ wStart' = wStart + 1
    ELSE UNCHANGED <<workers, wStart>>

RemoteStart(nobjs, nindex) ==
  /\ lim = [objs |-> nobjs, index |-> nindex]
  /\ queue = {}
  /\ done = {}
  /\ nextIndex = 0
  /\ ready = 0
  /\ workers = INITIAL_WORKERS
  /\ wStart = INITIAL_WORKERS
  /\ wWait = 0
  /\ wBusy = {}
  /\ caller = Idle
  /\ attempts = [o \in 1..nobjs |-> 0]
  /\ lastOut = [o \in 1..nobjs |-> "none"]
  /\ puts = [o \in 1..nobjs |-> [ok |-> 0, fail |-> 0]]
  /\ requested = 0
  /\ lastResult = [outcome |-> "none", kind |-> "none", obj |-> 0,
                   early |-> FALSE, passed |-> FALSE]

\* A Remote whose pool has grown to n threads: the n - INITIAL_WORKERS
\* threads that _fetch added have each served one item, every result has
\* been collected, and all n threads are at the top of the loop of _run.
GrownPool(n, nobjs, nindex) ==
  /\ lim = [objs |-> nobjs, index |-> (n - INITIAL_WORKERS) + nindex]
  /\ queue = {}
  /\ done = {}
  /\ nextIndex = n - INITIAL_WORKERS
  /\ ready = 0
  /\ workers = n
  /\ wStart = n
  /\ wWait = 0
  /\ wBusy = {}
  /\ caller = Idle
  /\ attempts = [o \in 1..nobjs |-> 0]
  /\ lastOut = [o \in 1..nobjs |-> "none"]
  /\ puts = [o \in 1..nobjs |-> [ok |-> 0, fail |-> 0]]
  /\ requested = 0
  /\ lastResult = [outcome |-> "none", kind |-> "none", obj |-> 0,
                   early |-> FALSE, passed |-> FALSE]

\* fetch_item -> _fetch, first half: read self._ready under the lock and
\* take the next index.
fetch_item(p, o) ==
  /\ caller.pc = "idle"
  /\ o = requested + 1
  /\ nextIndex < lim.index
  /\ BitAnd(p, INTERNAL_PRIORITY_BITS) = 0
  /\ caller' = [pc |-> "put", item |-> Item(p, nextIndex, o),
                startNew |-> (ready = 0)]
  /\ nextIndex' = nextIndex + 1
  /\ requested' = requested + 1
  /\ UNCHANGED <<queue, done, ready, workers, wStart, wWait, wBusy, attempts,
                 lastOut, puts, lastResult, lim>>
  /\ UNCHANGED notRemoteVars

\* _fetch, second half: put the item and start a worker if none was idle.
fetch_put ==
  /\ caller.pc = "put"
  /\ queue' = queue \cup {caller.item}
  /\ AddWorker(caller.startNew)
  /\ caller' = Idle
  /\ UNCHANGED <<done, nextIndex, ready, wWait, wBusy, attempts, lastOut, puts,
                 requested, lastResult, lim>>
  /\ UNCHANGED notRemoteVars

\* get_result: blocks until self._done has an entry.
get_result ==
  /\ caller.pc = "idle"
  /\ done # {}
  /\ \E r \in Smallest(done) :
       /\ done' = done \ {r}
       /\ lastResult' = Taken(r)
  /\ UNCHANGED <<queue, nextIndex, ready, workers, wStart, wWait, wBusy,
                 caller, attempts, lastOut, puts, requested, lim>>
  /\ UNCHANGED notRemoteVars

\* _run: "with self._ready_lock: self._ready += 1".
run_ready ==
  /\ wStart > 0
  /\ wStart' = wStart - 1
  /\ wWait' = wWait + 1
  /\ ready' = ready + 1
  /\ UNCHANGED <<queue, done, nextIndex, workers, wBusy, caller, attempts,
                 lastOut, puts, requested, lastResult, lim>>
  /\ UNCHANGED notRemoteVars

\* _run: "item = self._queue.get()".
run_get ==
  /\ wWait > 0
  /\ queue # {}
  /\ \E item \in Smallest(queue) :
       /\ queue' = queue \ {item}
       /\ wBusy' = wBusy \cup {[st |-> "got", item |-> item,
                                next |-> NoItem, startNew |-> FALSE]}
  /\ wWait' = wWait - 1
  /\ UNCHANGED <<done, nextIndex, ready, workers, wStart, caller, attempts,
                 lastOut, puts, requested, lastResult, lim>>
  /\ UNCHANGED notRemoteVars

\* _run: "finally: with self._ready_lock: self._ready -= 1".
run_unready ==
  \E w \in wBusy :
    /\ w.st = "got"
    /\ ready' = ready - 1
    /\ wBusy' = (wBusy \ {w}) \cup {[w EXCEPT !.st = "run"]}
    /\ UNCHANGED <<queue, done, nextIndex, workers, wStart, wWait, caller,
                   attempts, lastOut, puts, requested, lastResult, lim>>
    /\ UNCHANGED notRemoteVars

\* _run: self._do_item(obj, dest) and the except/else clauses after it.
run_do_item ==
  \E w \in wBusy : \E out \in Outcomes :
    LET o == w.item.obj IN
    /\ w.st = "run"
    /\ attempts' = [attempts EXCEPT ![o] = @ + 1]
    /\ lastOut' = [lastOut EXCEPT ![o] = out]
    /\ IF out = "ok" THEN
         /\ done' = done \cup {OkEntry(w.item)}
         /\ puts' = [puts EXCEPT ![o].ok = @ + 1]
         /\ wBusy' = wBusy \ {w}
         /\ wStart' = wStart + 1
         /\ UNCHANGED nextIndex
       ELSE IF out = "ioerror" /\ RetryAllowed(w.item.pri) THEN
         \* self._fetch(priority + 1, obj, dest), first half; continue
         /\ nextIndex < lim.index
         /\ wBusy' = (wBusy \ {w}) \cup
              {[st |-> "refetch", item |-> w.item,
                next |-> Item(w.item.pri + 1, nextIndex, o),
                startNew |-> (ready = 0)]}
         /\ nextIndex' = nextIndex + 1
         /\ UNCHANGED <<done, puts, wStart>>
       ELSE
         /\ done' = done \cup {ExcEntry(w.item,
                                 IF out = "ioerror" THEN "IOError" ELSE "Other")}
         /\ puts' = [puts EXCEPT ![o].fail = @ + 1]
         /\ wBusy' = wBusy \ {w}
         /\ wStart' = wStart + 1
         /\ UNCHANGED nextIndex
    /\ UNCHANGED <<queue, ready, workers, wWait, caller, requested,
                   lastResult, lim>>
    /\ UNCHANGED notRemoteVars

\* A retry that loses its item: the worker goes back to the top of the loop
\* and nothing is put on self._queue.
run_refetch_dropped ==
  \E w \in wBusy :
    /\ w.st = "refetch"
    /\ wBusy' = wBusy \ {w}
    /\ wStart' = wStart + 1
    /\ UNCHANGED <<queue, done, nextIndex, ready, workers, wWait, caller,
                   attempts, lastOut, puts, requested, lastResult, lim>>
    /\ UNCHANGED notRemoteVars

\* _run: the second half of the _fetch a worker makes to retry, then
\* "continue".
run_refetch_put ==
  \E w \in wBusy :
    /\ w.st = "refetch"
    /\ queue' = queue \cup {w.next}
    /\ wBusy' = wBusy \ {w}
    /\ IF w.startNew /\ workers < MAX_WORKERS
         THEN workers' = workers + 1 /\ wStart' = wStart + 2
         ELSE workers' = workers /\ wStart' = wStart + 1
    /\ UNCHANGED <<done, nextIndex, ready, wWait, caller, attempts, lastOut,
                   puts, requested, lastResult, lim>>
    /\ UNCHANGED notRemoteVars

RemoteNext ==
  \/ \E p \in Priorities, o \in 1..lim.objs : fetch_item(p, o)
  \/ fetch_put
  \/ get_result
  \/ run_ready
  \/ run_get
  \/ run_unready
  \/ run_do_item
  \/ run_refetch_put

\* Requests for object o that are still on their way: queued, held by a
\* worker, or about to be put by the caller.
InFlight(o) ==
  Cardinality({i \in queue : i.obj = o})
  + Cardinality({w \in wBusy : w.item.obj = o})
  + (IF caller.pc = "put" /\ caller.item.obj = o THEN 1 ELSE 0)

\* -------------------------------------------------------------- Cache
Ids == 1..MaxIds

Range(q) == {q[i] : i \in DOMAIN q}

RECURSIVE Sum(_)
Sum(q) == IF q = <<>> THEN 0 ELSE Head(q) + Sum(Tail(q))

\* The sequences without repetition over a set: the lists the code keeps in
\* self.state, and the orders os.listdir can return.
Orders(S) ==
  {q \in [1..Cardinality(S) -> S] : \A i, j \in DOMAIN q : i # j => q[i] # q[j]}

DupFree(S) == UNION {Orders(T) : T \in SUBSET S}

RECURSIVE Used(_)
Used(files) ==
  IF files = {} THEN 0
  ELSE LET f == CHOOSE x \in files : TRUE IN sizes[f] + Used(files \ {f})

\* The space of the cache's file system: every blob fits.
DiskSize == MaxIds * MaxSize

\* get_free_space(self.cache_dir).
get_free_space(files) == DiskSize - Used(files)

\* The retention policies a Cache is opened with.
PolicySets ==
  [max_cache_size : {0, 1, MaxSize + 1},
   min_free_space : {0, DiskSize - 1, DiskSize + 1},
   max_items : 0..(MaxIds - 1)]

\* remove_lru_file: pop the oldest entry, stat and delete its file; an
\* OSError (file missing, or os.remove failing: the ids of nodel) is logged.
\* c is [state, files, n, raised]: n counts the calls.
remove_lru_file_newest(c, nodel) ==
  LET f == c.state[Len(c.state)] IN
  [c EXCEPT !.state = SubSeq(c.state, 1, Len(c.state) - 1),
            !.files = IF f \in c.files /\ f \notin nodel THEN @ \ {f} ELSE @,
            !.n = @ + 1]
remove_lru_file(c, nodel) ==
  LET f == Head(c.state) IN
  [c EXCEPT !.state = Tail(c.state),
            !.files = IF f \in c.files /\ f \notin nodel THEN @ \ {f} ELSE @,
            !.n = @ + 1]

\* trim: "for filename in self.state[:]: if not os.path.exists(...):
\* self.state.remove(filename)".
DropLostKeepsAll(st, files) == st
DropLost(st, files) == SelectSeq(st, LAMBDA f : f \in files)

\* trim: "for filename in os.listdir(self.cache_dir): ...
\* self.state.insert(0, filename)", ls the listing without state.json.
RECURSIVE AdoptAsNewest(_, _)
AdoptAsNewest(st, ls) ==
  IF ls = <<>> THEN st
  ELSE AdoptAsNewest(IF Head(ls) \in Range(st) THEN st
                     ELSE Append(st, Head(ls)), Tail(ls))

RECURSIVE Adopt(_, _)
Adopt(st, ls) ==
  IF ls = <<>> THEN st
  ELSE Adopt(IF Head(ls) \in Range(st) THEN st ELSE <<Head(ls)>> \o st, Tail(ls))

\* trim: "while (min_free_space and self.state and get_free_space(...) <
\* min_free_space): self.remove_lru_file()".
RECURSIVE FreeLoop(_, _, _)
FreeLoop(c, nodel, pol) ==
  IF pol.min_free_space # 0 /\ c.state # <<>>
     /\ get_free_space(c.files) < pol.min_free_space
    THEN FreeLoop(remove_lru_file(c, nodel), nodel, pol)
    ELSE c

\* trim: "while sizes and sum(sizes) > max_cache_size:
\* self.remove_lru_file(); sizes.pop(0)".
SizeLoopTestSkipsFirst(szs, pol) ==
  szs # <<>> /\ Sum(Tail(szs)) > pol.max_cache_size
SizeLoopTest(szs, pol) == szs # <<>> /\ Sum(szs) > pol.max_cache_size

RECURSIVE SizeLoop(_, _, _, _)
SizeLoop(c, szs, nodel, pol) ==
  IF SizeLoopTest(szs, pol)
    THEN SizeLoop(remove_lru_file(c, nodel), Tail(szs), nodel, pol)
    ELSE c

\* trim: "if max_cache_size and self.state: sizes = [os.stat(...).st_size
\* for f in self.state] ...". os.stat raises OSError for a missing file and
\* trim re-raises it.
SizePhase(c, nodel, pol) ==
  IF pol.max_cache_size # 0 /\ c.state # <<>>
    THEN IF \E f \in Range(c.state) : f \notin c.files
           THEN [c EXCEPT !.raised = TRUE]
           ELSE SizeLoop(c, [i \in DOMAIN c.state |-> sizes[c.state[i]]],
                         nodel, pol)
    ELSE c

\* trim: "if max_items and self.state: while len(self.state) > max_items:
\* self.remove_lru_file()".
RECURSIVE ItemsLoop(_, _, _)
ItemsLoop(c, nodel, pol) ==
  IF pol.max_items # 0 /\ c.state # <<>> /\ Len(c.state) > pol.max_items
    THEN ItemsLoop(remove_lru_file(c, nodel), nodel, pol)
    ELSE c

\* trim, up to self.save(): [state, files, n, raised].
Trim(st, files, ls, nodel, pol) ==
  LET c0 == [state |-> Adopt(DropLost(st, files), ls), files |-> files,
             n |-> 0, raised |-> FALSE]
      c1 == FreeLoop(c0, nodel, pol)
      c2 == SizePhase(c1, nodel, pol)
  IN IF c2.raised THEN c2 ELSE ItemsLoop(c2, nodel, pol)

\* retrieve, cache hit: "index = self.state.index(item);
\* self.state.pop(index); self.state.append(item)".
RetrieveHitToFront(st, item) ==
  <<item>> \o SelectSeq(st, LAMBDA f : f # item)
RetrieveHit(st, item) == Append(SelectSeq(st, LAMBDA f : f # item), item)

\* retrieve, cache miss: "if os.path.exists(out): self.state.append(item)".
RetrieveMissKeepsState(st, item, exists) == st
RetrieveMiss(st, item, exists) == IF exists THEN Append(st, item) ELSE st

\* retrieve: "return False" on a hit, "return True" on a miss.
RetrieveReturnAlwaysFalse(hit) == "False"
RetrieveReturn(hit) == IF hit THEN "False" ELSE "True"

\* retrieve: self.remote.fetch_item(Remote.MED, item, out) followed by
\* self.remote.get_result(): the one entry the workers put for the request.
FetchAndWait(item, ok) ==
  GetResult(IF ok THEN OkEntry(Item(MED, 0, item))
                  ELSE ExcEntry(Item(MED + MAX_RETRIES, 0, item), "IOError"))

\* A call on the Cache: op, the id retrieved, whether it was tracked, the
\* number of remote.fetch_item calls made, how the backing fetch ended, what
\* was returned, the number of remove_lru_file calls made, and the files a
\* trim found that the state did not name.
NoOp == [op |-> "none", item |-> 0, hit |-> FALSE, calls |-> 0,
         fetch |-> "none", ret |-> "none", n |-> 0, adopted |-> {}]

\* What prevOp keeps of a call: of a retrieve its id, whether it was a hit
\* and how its fetch ended; of another call only that it was made.
Prev(call) ==
  IF call.op = "retrieve"
    THEN [NoOp EXCEPT !.op = "retrieve", !.item = call.item, !.hit = call.hit,
                      !.calls = call.calls, !.fetch = call.fetch]
    ELSE [NoOp EXCEPT !.op = call.op]

\* A cache directory as a run finds it, before Cache(...) is constructed.
CacheStart ==
  /\ cphase = "new"
  /\ cstate = <<>>
  /\ cfiles \in SUBSET Ids
  /\ cjson \in DupFree(Ids)
  /\ policies \in PolicySets
  /\ sizes \in [Ids -> {1, MaxSize}]
  /\ lastOp = NoOp
  /\ prevOp = NoOp
  /\ hist = <<>>
  /\ lru = "off"

\* The Cache of a specification that does not use it.
CacheUnused ==
  /\ cphase = "new"
  /\ cstate = <<>>
  /\ cfiles = {}
  /\ cjson = <<>>
  /\ policies = [max_cache_size |-> 0, min_free_space |-> 0, max_items |-> 0]
  /\ sizes = [i \in Ids |-> 1]
  /\ lastOp = NoOp
  /\ prevOp = NoOp
  /\ hist = <<>>
  /\ lru = "off"

\* save: json.dump(self.state, open(self.state_file, 'wb')) replaces what
\* state.json held (old) by the list.
save_skipped(st, old) == old
save(st, old) == st

\* The results self.trim() can have. ls is the order in which os.listdir
\* returns the files the state does not name (the loop skips the others);
\* os.remove fails for the files of nodel.
TrimResults(st) ==
  {Trim(st, cfiles, ls, nodel, policies) :
     ls \in Orders(cfiles \ Range(st)), nodel \in SUBSET cfiles}

\* self.trim() applied to the cache, and self.save() unless trim raised.
DoTrim(st) ==
  \E t \in TrimResults(st) :
    /\ cstate' = t.state
    /\ cfiles' = t.files
    /\ cjson' = IF t.raised THEN cjson ELSE save(t.state, cjson)
    /\ lastOp' = [NoOp EXCEPT !.op = "trim", !.n = t.n,
                              !.ret = IF t.raised THEN "raised" ELSE "none",
                              !.adopted = cfiles \ Range(st)]
    /\ prevOp' = Prev(lastOp)

\* Cache.__init__: load state.json, then trim. lru records whether the
\* cache directory was empty, the case the LRU history is kept for.
CacheConstruct ==
  /\ cphase \in {"new", "closed"}
  /\ DoTrim(cjson)
  /\ cphase' = "open"
  /\ hist' = <<>>
  /\ lru' = IF cfiles = {} /\ cjson = <<>> THEN "fill" ELSE "off"
  /\ UNCHANGED <<policies, sizes>>

Construct == CacheConstruct /\ UNCHANGED notCacheVars

\* Cache.trim called on an open cache.
trim ==
  /\ cphase = "open"
  /\ DoTrim(cstate)
  /\ lru' = IF lru = "off" THEN "off" ELSE "trimmed"
  /\ UNCHANGED <<policies, sizes, cphase, hist>>
  /\ UNCHANGED notCacheVars

\* Cache.__exit__: trim, then the statistics are logged.
CacheExit ==
  /\ cphase = "open"
  /\ DoTrim(cstate)
  /\ cphase' = "closed"
  /\ lru' = IF lru = "off" THEN "off" ELSE "trimmed"
  /\ UNCHANGED <<policies, sizes, hist>>

exit == CacheExit /\ UNCHANGED notCacheVars

\* Cache.retrieve(item). ok: the backing fetch succeeds; partial: a failed
\* fetch leaves a file at cache_dir/<item>.
CacheRetrieve(item) ==
  /\ cphase = "open"
  /\ \E ok \in BOOLEAN, partial \in BOOLEAN :
       LET hit == item \in Range(cstate)
           r == FetchAndWait(item, ok)
           after == IF ok \/ partial THEN cfiles \cup {item} ELSE cfiles
           raised == ~hit /\ r.outcome = "raised"
           st == IF hit THEN RetrieveHit(cstate, item)
                 ELSE IF raised THEN cstate
                 ELSE RetrieveMiss(cstate, item, item \in after)
       IN
       /\ hit => ok /\ ~partial
       /\ ok => ~partial
       /\ cstate' = st
       /\ cfiles' = IF hit THEN cfiles ELSE after
       \* finally: self.save()
       /\ cjson' = save(st, cjson)
       /\ lastOp' = [op |-> "retrieve", item |-> item, hit |-> hit,
                     calls |-> IF hit THEN 0 ELSE 1,
                     fetch |-> IF hit THEN "none"
                               ELSE IF ok THEN "ok" ELSE "failed",
                     ret |-> IF raised THEN "raised" ELSE RetrieveReturn(hit),
                     n |-> 0, adopted |-> {}]
       /\ prevOp' = Prev(lastOp)
       /\ IF lru = "fill" /\ ~hit /\ ok /\ item \notin Range(hist)
            THEN hist' = Append(hist, item) /\ lru' = "fill"
            ELSE hist' = <<>> /\ lru' = "off"
  /\ UNCHANGED <<policies, sizes, cphase>>

retrieve(item) == CacheRetrieve(item) /\ UNCHANGED notCacheVars

CacheNext ==
  \/ Construct
  \/ trim
  \/ exit
  \/ \E item \in Ids : retrieve(item)

\* ---------------------------------------------------------- load_manifest
\* A manifest text is "not_json" (json.loads raises ValueError), a JSON value
\* that is not an object, or an object: its (key, value) pairs in the order
\* data.iteritems() visits them. Values are kept by the type tests
\* load_manifest applies to them.
TopKeys == {"command", "files", "read_only", "relative_cwd", "foo"}
PropKeys == {"link", "mode", "sha-1", "timestamp", "other"}

ValuesOf(key) ==
  CASE key = "command" -> {"list_of_str", "list_with_other", "not_list"}
    [] key = "files" -> {"dict", "not_dict"}
    [] key = "read_only" -> {"bool", "not_bool"}
    [] key = "relative_cwd" -> {"str", "not_str"}
    [] OTHER -> {"any"}

\* "hex40_newline" is 40 hex digits followed by "\n"; "other_str" any other
\* string; "not_str" a number, list, object, true, false or null.
PropValuesOf(key) ==
  CASE key = "link" -> {"str", "not_str"}
    [] key = "mode" -> {"int", "not_int"}
    [] key = "sha-1" -> {"hex40", "hex40_newline", "other_str", "not_str"}
    [] key = "timestamp" -> {"int", "not_int"}
    [] OTHER -> {"any"}

\* The orders in which at most n distinct keys of K can be visited.
KeyOrders(K, n) == UNION {Orders(T) : T \in {S \in SUBSET K : Cardinality(S) <= n}}

RECURSIVE PropsFor(_)
PropsFor(ks) ==
  IF ks = <<>> THEN {<<>>}
  ELSE {<<[k |-> Head(ks), v |-> v]>> \o r :
          v \in PropValuesOf(Head(ks)), r \in PropsFor(Tail(ks))}

\* The values of manifest['files'][path]: not an object, or an object.
FileEntries(nprops) ==
  {[isdict |-> FALSE, props |-> <<>>]}
  \cup {[isdict |-> TRUE, props |-> p] :
          p \in UNION {PropsFor(ks) : ks \in KeyOrders(PropKeys, nprops)}}

\* The values of manifest[key]; manifest['files'] has no entry or one.
ItemsOf(key, nprops) ==
  IF key = "files"
    THEN {[key |-> key, val |-> v, entries |-> <<>>] : v \in ValuesOf(key)}
         \cup {[key |-> key, val |-> "dict", entries |-> <<e>>] :
                 e \in FileEntries(nprops)}
    ELSE {[key |-> key, val |-> v, entries |-> <<>>] : v \in ValuesOf(key)}

RECURSIVE ItemsFor(_, _)
ItemsFor(ks, nprops) ==
  IF ks = <<>> THEN {<<>>}
  ELSE {<<it>> \o r :
          it \in ItemsOf(Head(ks), nprops), r \in ItemsFor(Tail(ks), nprops)}

\* c is a manifest text of at most nkeys keys.
IsContent(c, nkeys, nprops) ==
  \/ \E k \in {"not_json", "list", "string"} : c = [kind |-> k, items |-> <<>>]
  \/ \E ks \in KeyOrders(TopKeys, nkeys) :
       \E q \in ItemsFor(ks, nprops) : c = [kind |-> "dict", items |-> q]

\* RE_IS_SHA1 = re.compile(r'^[a-fA-F0-9]{40}$'): "$" also matches before a
\* trailing newline.
RE_IS_SHA1_match(v) == v \in {"hex40", "hex40_newline"}

\* The loop over subvalue.iteritems(): "ok" or the exception raised.
\* RE_IS_SHA1.match raises TypeError for a value that is not a string.
RECURSIVE VisitProps(_)
VisitProps(props) ==
  IF props = <<>> THEN "ok"
  ELSE LET p == Head(props) IN
    CASE p.k = "link" ->
           IF p.v # "str" THEN "ConfigError" ELSE VisitProps(Tail(props))
      [] p.k = "mode" ->
           IF p.v # "int" THEN "ConfigError" ELSE VisitProps(Tail(props))
      [] p.k = "sha-1" ->
           IF p.v = "not_str" THEN "TypeError"
           ELSE IF ~RE_IS_SHA1_match(p.v) THEN "ConfigError"
           ELSE VisitProps(Tail(props))
      [] p.k = "timestamp" ->
           IF p.v # "int" THEN "ConfigError" ELSE VisitProps(Tail(props))
      [] OTHER -> "ConfigError"

HasProp(e, k) == \E i \in DOMAIN e.props : e.props[i].k = k

\* The body of "for subkey, subvalue in value.iteritems()". A key of a JSON
\* object is always a string.
VisitEntry(e) ==
  IF ~e.isdict THEN "ConfigError"
  ELSE LET r == VisitProps(e.props) IN
    IF r # "ok" THEN r
    ELSE IF HasProp(e, "sha-1") /\ HasProp(e, "link") THEN "ConfigError"
    ELSE "ok"

RECURSIVE VisitEntries(_)
VisitEntries(es) ==
  IF es = <<>> THEN "ok"
  ELSE LET r == VisitEntry(Head(es)) IN
    IF r # "ok" THEN r ELSE VisitEntries(Tail(es))

\* The final else of the loop over data.iteritems():
\* "raise ConfigError('Unknown key %s' % subkey)". subkey is the variable of
\* the loop over 'files'; it is bound only once that loop has run.
UnknownKey(bound) == IF bound THEN "ConfigError" ELSE "UnboundLocalError"

\* The loop over data.iteritems(); bound: subkey has been assigned.
RECURSIVE VisitKeys(_, _)
VisitKeys(items, bound) ==
  IF items = <<>> THEN "ok"
  ELSE LET it == Head(items) IN
    CASE it.key = "command" ->
           IF it.val # "list_of_str" THEN "ConfigError"
           ELSE VisitKeys(Tail(items), bound)
      [] it.key = "files" ->
           IF it.val # "dict" THEN "ConfigError"
           ELSE LET r == VisitEntries(it.entries) IN
             IF r # "ok" THEN r
             ELSE VisitKeys(Tail(items), bound \/ it.entries # <<>>)
      [] it.key = "read_only" ->
           IF it.val # "bool" THEN "ConfigError"
           ELSE VisitKeys(Tail(items), bound)
      [] it.key = "relative_cwd" ->
           IF it.val # "str" THEN "ConfigError"
           ELSE VisitKeys(Tail(items), bound)
      [] OTHER -> UnknownKey(bound)

\* load_manifest(content): "returned" or the exception raised.
load_manifest(c) ==
  IF c.kind = "not_json" THEN "ConfigError"
  ELSE IF c.kind # "dict" THEN "ConfigError"
  ELSE LET r == VisitKeys(c.items, FALSE) IN
    IF r = "ok" THEN "returned" ELSE r

ManifestStart ==
  /\ IsContent(content, MaxKeys, MaxProps)
  /\ loaded = "none"

ManifestUnused ==
  /\ content = [kind |-> "dict", items |-> <<>>]
  /\ loaded = "none"

\* main: manifest = load_manifest(open_remote(options.manifest).read()).
main_load ==
  /\ loaded = "none"
  /\ loaded' = load_manifest(content)
  /\ UNCHANGED content
  /\ UNCHANGED notManifestVars

ManifestNext == main_load

\* ------------------------------------------------------------ run_tha_test
\* The paths the manifest can name: the first one lies in outdir itself,
\* the others in the directory outdir/d. relative_cwd is "" (absent or
\* empty) or "w".
Locs == 1..MaxFiles
Dirs == {"d", "w"}
DirOf(loc) == IF loc = 1 THEN "" ELSE "d"
Platforms == {"win32", "linux2", "darwin"}
ExitCodes == 0..MaxCode

\* hasattr(os, 'lchmod').
HasLchmod(p) == p = "darwin"

\* A path under outdir: kind "none" (nothing there), "file", "dir" or
\* "link"; w is the owner's write bit.
Absent == [kind |-> "none", w |-> FALSE]
NewNode(kind) == [kind |-> kind, w |-> TRUE]

\* An entry of manifest['files'] as load_manifest lets it through: a sha-1
\* or a link or neither, and an optional mode, here one without write bits.
Entries ==
  {[loc |-> l, typ |-> "sha-1", sha |-> s, mode |-> md] :
     l \in Locs, s \in Ids, md \in {"none", "ro"}}
  \cup {[loc |-> l, typ |-> t, sha |-> 0, mode |-> "none"] :
          l \in Locs, t \in {"link", "none"}}
NoEntry == [loc |-> 0, typ |-> "none", sha |-> 0, mode |-> "none"]

Manifests ==
  {[files |-> TRUE, nfiles |-> n, command |-> c, read_only |-> ro,
    relative_cwd |-> cwd] :
     n \in 0..MaxFiles, c \in {"absent", "empty", "ok"}, ro \in BOOLEAN,
     cwd \in {"", "w"}}
  \cup {[files |-> FALSE, nfiles |-> 0, command |-> c, read_only |-> ro,
         relative_cwd |-> cwd] :
          c \in {"absent", "empty", "ok"}, ro \in BOOLEAN,
          cwd \in {"", "w"}}

\* What a function delivers: a return value or an exception.
NoVal == [kind |-> "none", code |-> 0, exc |-> "none"]
Return(c) == [kind |-> "return", code |-> c, exc |-> "none"]
Raise(e) == [kind |-> "raise", code |-> 0, exc |-> e]

\* _set_write_bit(path, read_only): mode & 0500 or mode | 0200; a symlink
\* is skipped where os has no lchmod.
set_write_bit_files_only(n, read_only, p) ==
  IF n.kind = "file" THEN [n EXCEPT !.w = ~read_only] ELSE n
set_write_bit(n, read_only, p) ==
  IF n.kind = "none" THEN n
  ELSE IF n.kind = "link" /\ ~HasLchmod(p) THEN n
  ELSE [n EXCEPT !.w = ~read_only]

\* make_writable(root, read_only): os.walk visits every file and directory
\* under root, not root itself.
make_writable(nodes, read_only, p) ==
  [x \in DOMAIN nodes |-> set_write_bit(nodes[x], read_only, p)]

\* "if not os.path.isdir(d): os.makedirs(d)".
makedirs(dirs, d) ==
  IF d = "" \/ dirs[d].kind = "dir" THEN dirs
  ELSE [dirs EXCEPT ![d] = NewNode("dir")]

\* link_file(outfile, infile, HARDLINK). isf: outfile is a link to a file.
\* A link that os.path.isfile does not follow to a file makes os.link fail
\* and shutil.copy write through it: the path stays the link it was.
link_file(out, infile_exists, isf) ==
  IF ~infile_exists THEN [exc |-> "MappingError", node |-> out]
  ELSE IF out.kind = "file" \/ (out.kind = "link" /\ isf)
    THEN [exc |-> "MappingError", node |-> out]
  ELSE IF out.kind = "link" THEN [exc |-> "none", node |-> out]
  ELSE [exc |-> "none", node |-> NewNode("file")]

\* "return subprocess.call(cmd, cwd=cwd)".
ChildReturnGeneric(c) == IF c = 0 THEN 0 ELSE 1
ChildReturn(c) == c

\* rmtree on win32: "for i in range(3)".
RMTREE_ATTEMPTS == 3

\* main: "except (ConfigError, MappingError), e: ... return 1".
MainReturn(r) ==
  IF r.kind = "raise" /\ r.exc \in {"ConfigError", "MappingError"}
    THEN Return(1) ELSE r

RunStart ==
  /\ rpc = "start"
  /\ manifest \in Manifests
  /\ left = 0
  /\ cur = NoEntry
  /\ platform \in Platforms
  /\ root = "none"
  /\ tfiles = [l \in Locs |-> Absent]
  /\ tdirs = [d \in Dirs |-> Absent]
  /\ child = [st |-> "none", code |-> 0]
  /\ pending = NoVal
  /\ result = NoVal
  /\ rm = [tries |-> 0, failed |-> 0, delay |-> 0]
  /\ mainRet = NoVal

\* main / run_tha_test in a specification that does not run them.
RunUnused ==
  /\ rpc = "start"
  /\ manifest = [files |-> FALSE, nfiles |-> 0, command |-> "absent",
                 read_only |-> FALSE, relative_cwd |-> ""]
  /\ left = 0
  /\ cur = NoEntry
  /\ platform = "linux2"
  /\ root = "none"
  /\ tfiles = [l \in Locs |-> Absent]
  /\ tdirs = [d \in Dirs |-> Absent]
  /\ child = [st |-> "none", code |-> 0]
  /\ pending = NoVal
  /\ result = NoVal
  /\ rm = [tries |-> 0, failed |-> 0, delay |-> 0]
  /\ mainRet = NoVal

\* The cache directory a run finds: empty, or with the blob an earlier run
\* left, tracked by its state.json; no limit is set.
RunCacheStart ==
  /\ cphase = "new"
  /\ cstate = <<>>
  /\ cfiles \in {{}, {1}}
  /\ cjson \in Orders(cfiles)
  /\ policies = [max_cache_size |-> 0, min_free_space |-> 0, max_items |-> 0]
  /\ sizes = [i \in Ids |-> 1]
  /\ lastOp = NoOp
  /\ prevOp = NoOp
  /\ hist = <<>>
  /\ lru = "off"

\* "with Cache(cache_dir, Remote(remote), policies) as cache".
run_cache ==
  /\ rpc = "start"
  /\ CacheConstruct
  /\ IF lastOp'.ret = "raised"
       THEN rpc' = "done" /\ result' = Raise("OSError")
       ELSE rpc' = "temp" /\ result' = result
  /\ UNCHANGED <<manifest, left, cur, platform, root, tfiles, tdirs, child,
                 pending, rm, mainRet>>
  /\ UNCHANGED notRunVars

\* "outdir = make_temp_dir('run_tha_test', cache_dir)".
run_make_temp_dir ==
  /\ rpc = "temp"
  /\ root' = "present"
  /\ rpc' = "check"
  /\ UNCHANGED <<manifest, left, cur, platform, tfiles, tdirs, child,
                 pending, result, rm, mainRet>>
  /\ UNCHANGED <<cacheVars, notRunVars>>

\* "if not 'files' in manifest: ... return 1".
run_no_files ==
  /\ rpc = "check"
  /\ ~manifest.files
  /\ pending' = Return(1)
  /\ rpc' = "exit"
  /\ UNCHANGED <<manifest, left, cur, platform, root, tfiles, tdirs, child,
                 result, rm, mainRet>>
  /\ UNCHANGED <<cacheVars, notRunVars>>

\* "if not 'command' in manifest: ... return 1".
run_no_command ==
  /\ rpc = "check"
  /\ manifest.files
  /\ manifest.command = "absent"
  /\ pending' = Return(1)
  /\ rpc' = "exit"
  /\ UNCHANGED <<manifest, left, cur, platform, root, tfiles, tdirs, child,
                 result, rm, mainRet>>
  /\ UNCHANGED <<cacheVars, notRunVars>>

\* "try:" and the start of the loop over manifest['files'].iteritems().
run_try ==
  /\ rpc = "check"
  /\ manifest.files
  /\ manifest.command # "absent"
  /\ left' = manifest.nfiles
  /\ rpc' = "loop"
  /\ UNCHANGED <<manifest, cur, platform, root, tfiles, tdirs, child,
                 pending, result, rm, mainRet>>
  /\ UNCHANGED <<cacheVars, notRunVars>>

\* The next (filepath, properties): os.makedirs(outfiledir), then the
\* branch on the properties; "raise ConfigError('Unexpected entry...')".
run_entry(e) ==
  /\ rpc = "loop"
  /\ left > 0
  /\ cur' = e
  /\ tdirs' = makedirs(tdirs, DirOf(e.loc))
  /\ IF e.typ = "sha-1" THEN rpc' = "retrieve" /\ pending' = pending
     ELSE IF e.typ = "link" THEN rpc' = "symlink" /\ pending' = pending
     ELSE rpc' = "finally" /\ pending' = Raise("ConfigError")
  /\ UNCHANGED <<manifest, left, platform, root, tfiles, child, result, rm,
                 mainRet>>
  /\ UNCHANGED <<cacheVars, notRunVars>>

\* The loop body without its call of cache.retrieve.
run_retrieve_skipped ==
  /\ rpc = "retrieve"
  /\ rpc' = "link"
  /\ UNCHANGED <<manifest, left, cur, platform, root, tfiles, tdirs, child,
                 pending, result, rm, mainRet>>
  /\ UNCHANGED <<cacheVars, notRunVars>>

\* "cache.retrieve(infile)".
run_retrieve ==
  /\ rpc = "retrieve"
  /\ CacheRetrieve(cur.sha)
  /\ IF lastOp'.ret = "raised"
       THEN rpc' = "finally" /\ pending' = Raise("IOError")
       ELSE rpc' = "link" /\ pending' = pending
  /\ UNCHANGED <<manifest, left, cur, platform, root, tfiles, tdirs, child,
                 result, rm, mainRet>>
  /\ UNCHANGED notRunVars

\* "link_file(outfile, cache.path(infile), HARDLINK)".
run_link_file ==
  /\ rpc = "link"
  /\ \E isf \in BOOLEAN :
       /\ isf => tfiles[cur.loc].kind = "link"
       /\ LET r == link_file(tfiles[cur.loc], cur.sha \in cfiles, isf) IN
          IF r.exc # "none"
            THEN /\ rpc' = "finally"
                 /\ pending' = Raise(r.exc)
                 /\ tfiles' = tfiles
            ELSE /\ rpc' = "chmod"
                 /\ pending' = pending
                 /\ tfiles' = [tfiles EXCEPT ![cur.loc] = r.node]
  /\ UNCHANGED <<manifest, left, cur, platform, root, tdirs, child, result,
                 rm, mainRet>>
  /\ UNCHANGED <<cacheVars, notRunVars>>

\* "os.symlink(properties['link'], outfile)": os has no symlink on win32,
\* and an existing outfile makes it raise OSError.
run_symlink ==
  /\ rpc = "symlink"
  /\ IF platform = "win32"
       THEN rpc' = "finally" /\ pending' = Raise("AttributeError")
                             /\ tfiles' = tfiles
     ELSE IF tfiles[cur.loc].kind # "none"
       THEN rpc' = "finally" /\ pending' = Raise("OSError")
                             /\ tfiles' = tfiles
     ELSE /\ rpc' = "chmod"
          /\ pending' = pending
          /\ tfiles' = [tfiles EXCEPT ![cur.loc] = NewNode("link")]
  /\ UNCHANGED <<manifest, left, cur, platform, root, tdirs, child, result,
                 rm, mainRet>>
  /\ UNCHANGED <<cacheVars, notRunVars>>

\* "if 'mode' in properties: os.chmod(outfile, properties['mode'])", and the
\* end of the loop body. os.chmod follows a link: the path stays as it was.
run_chmod ==
  /\ rpc = "chmod"
  /\ tfiles' = IF cur.mode # "none" /\ tfiles[cur.loc].kind = "file"
                 THEN [tfiles EXCEPT ![cur.loc].w = (cur.mode # "ro")]
                 ELSE tfiles
  /\ left' = left - 1
  /\ cur' = NoEntry
  /\ rpc' = "loop"
  /\ UNCHANGED <<manifest, platform, root, tdirs, child, pending,
                 result, rm, mainRet>>
  /\ UNCHANGED <<cacheVars, notRunVars>>

\* "cwd = os.path.join(outdir, manifest.get('relative_cwd', '')); if not
\* os.path.isdir(cwd): os.makedirs(cwd)".
run_cwd ==
  /\ rpc = "loop"
  /\ left = 0
  /\ tdirs' = makedirs(tdirs, manifest.relative_cwd)
  /\ rpc' = "read_only"
  /\ UNCHANGED <<manifest, left, cur, platform, root, tfiles, child,
                 pending, result, rm, mainRet>>
  /\ UNCHANGED <<cacheVars, notRunVars>>

\* "if manifest.get('read_only'): make_writable(outdir, True)", then
\* "cmd = manifest['command']; cmd[0] = ...": IndexError for an empty list.
run_read_only ==
  /\ rpc = "read_only"
  /\ tfiles' = IF manifest.read_only
                 THEN make_writable(tfiles, TRUE, platform) ELSE tfiles
  /\ tdirs' = IF manifest.read_only
                THEN make_writable(tdirs, TRUE, platform) ELSE tdirs
  /\ IF manifest.command = "empty"
       THEN rpc' = "finally" /\ pending' = Raise("IndexError")
       ELSE rpc' = "spawn" /\ pending' = pending
  /\ UNCHANGED <<manifest, left, cur, platform, root, child, result, rm,
                 mainRet>>
  /\ UNCHANGED <<cacheVars, notRunVars>>

\* "return subprocess.call(cmd, cwd=cwd)"; "except OSError: ... raise".
run_spawn ==
  /\ rpc = "spawn"
  /\ \/ \E c \in ExitCodes :
          /\ child' = [st |-> "exited", code |-> c]
          /\ pending' = Return(ChildReturn(c))
     \/ /\ child' = [st |-> "nospawn", code |-> 0]
        /\ pending' = Raise("OSError")
  /\ rpc' = "finally"
  /\ UNCHANGED <<manifest, left, cur, platform, root, tfiles, tdirs, result,
                 rm, mainRet>>
  /\ UNCHANGED <<cacheVars, notRunVars>>

\* "finally: rmtree(outdir)": make_writable(root, False).
rmtree_make_writable ==
  /\ rpc = "finally"
  /\ tfiles' = make_writable(tfiles, FALSE, platform)
  /\ tdirs' = make_writable(tdirs, FALSE, platform)
  /\ rpc' = "rmtree"
  /\ UNCHANGED <<manifest, left, cur, platform, root, child, pending,
                 result, rm, mainRet>>
  /\ UNCHANGED <<cacheVars, notRunVars>>

\* rmtree: one shutil.rmtree(root). On win32 a WindowsError is caught, the
\* thread sleeps (i+1)*2 seconds and the loop goes on, at most three times,
\* after which rmtree returns; elsewhere the exception leaves rmtree and
\* replaces what the try block was delivering.
rmtree_attempt ==
  /\ rpc = "rmtree"
  /\ \/ /\ root' = "removed"
        /\ tfiles' = [l \in Locs |-> Absent]
        /\ tdirs' = [d \in Dirs |-> Absent]
        /\ rm' = [rm EXCEPT !.tries = @ + 1]
        /\ pending' = pending
        /\ rpc' = "exit"
     \/ /\ platform = "win32"
        /\ rm' = [tries |-> rm.tries + 1, failed |-> rm.failed + 1,
                  delay |-> (rm.tries + 1) * 2]
        /\ rpc' = IF rm.tries + 1 = RMTREE_ATTEMPTS THEN "exit" ELSE "rmtree"
        /\ pending' = pending
        /\ UNCHANGED <<root, tfiles, tdirs>>
     \/ /\ platform # "win32"
        /\ rm' = [rm EXCEPT !.tries = @ + 1, !.failed = @ + 1]
        /\ rpc' = "exit"
        /\ pending' = Raise("OSError")
        /\ UNCHANGED <<root, tfiles, tdirs>>
  /\ UNCHANGED <<manifest, left, cur, platform, child, result, mainRet>>
  /\ UNCHANGED <<cacheVars, notRunVars>>

\* Cache.__exit__ as the with block is left, then run_tha_test delivers.
run_cache_exit ==
  /\ rpc = "exit"
  /\ CacheExit
  /\ result' = IF lastOp'.ret = "raised" THEN Raise("OSError") ELSE pending
  /\ rpc' = "done"
  /\ UNCHANGED <<manifest, left, cur, platform, root, tfiles, tdirs, child,
                 pending, rm, mainRet>>
  /\ UNCHANGED notRunVars

\* main: "return run_tha_test(...)" inside try / except.
main_return ==
  /\ rpc = "done"
  /\ mainRet' = MainReturn(result)
  /\ rpc' = "end"
  /\ UNCHANGED <<manifest, left, cur, platform, root, tfiles, tdirs, child,
                 pending, result, rm>>
  /\ UNCHANGED <<cacheVars, notRunVars>>

RunNext ==
  \/ run_cache
  \/ run_make_temp_dir
  \/ run_no_files
  \/ run_no_command
  \/ run_try
  \/ \E e \in Entries : run_entry(e)
  \/ run_retrieve
  \/ run_link_file
  \/ run_symlink
  \/ run_chmod
  \/ run_cwd
  \/ run_read_only
  \/ run_spawn
  \/ rmtree_make_writable
  \/ rmtree_attempt
  \/ run_cache_exit
  \/ main_return

RunInit ==
  RunStart /\ RunCacheStart /\ RemoteStart(MaxObjs, MaxIndex) /\ ManifestUnused

SpecRun == RunInit /\ [][RunNext]_vars

ManifestInit ==
  ManifestStart /\ CacheUnused /\ RunUnused /\ RemoteStart(MaxObjs, MaxIndex)

SpecManifest == ManifestInit /\ [][ManifestNext]_vars

CacheInit ==
  CacheStart /\ RemoteStart(MaxObjs, MaxIndex) /\ RunUnused /\ ManifestUnused

SpecCache == CacheInit /\ [][CacheNext]_vars

RemoteInit ==
  RemoteStart(MaxObjs, MaxIndex) /\ CacheUnused /\ RunUnused /\ ManifestUnused

SpecRemote == RemoteInit /\ [][RemoteNext]_vars

FanOutInit ==
  RemoteStart(FanObjs, FanIndex) /\ CacheUnused /\ RunUnused /\ ManifestUnused

SpecFanOut == FanOutInit /\ [][RemoteNext]_vars

RetryInit ==
  RemoteStart(RetryObjs, RetryIndex) /\ CacheUnused /\ RunUnused
  /\ ManifestUnused

SpecRetry == RetryInit /\ [][RemoteNext]_vars

\* Every thread that can take a step eventually takes it: the caller
\* finishes the _fetch it is in, a worker gets through its loop, and
\* self._do_item returns or raises.
RemoteFairness ==
  /\ WF_vars(fetch_put)
  /\ WF_vars(run_ready)
  /\ WF_vars(run_get)
  /\ WF_vars(run_unready)
  /\ WF_vars(run_do_item)
  /\ WF_vars(run_refetch_put)

SpecRetryFair == RetryInit /\ [][RemoteNext]_vars /\ RemoteFairness

PoolInit ==
  /\ \E n \in {INITIAL_WORKERS, MAX_WORKERS - 1, MAX_WORKERS} :
       GrownPool(n, PoolObjs, PoolIndex)
  /\ CacheUnused /\ RunUnused /\ ManifestUnused

SpecPool == PoolInit /\ [][RemoteNext]_vars

\* ---------------------------------------------------------------- claims

\* C1: whenever the entry get_result() takes from the completion queue is a
\* failure entry, get_result raises the exception and returns no value.
C1_FailureEntryRaises ==
  lastResult.kind = "exc" => lastResult.outcome = "raised"

\* C3: for a request whose backing fetch raises IOError on every attempt,
\* the backing fetch is invoked exactly 6 times; then exactly one failure
\* entry for it is put on the completion queue and it is never attempted
\* again. While fewer than 6 attempts were made the request is still on its
\* way (exactly once) and no entry was put for it.
C3_RetryThenFail ==
  \A o \in 1..lim.objs :
    lastOut[o] = "ioerror" =>
      /\ attempts[o] <= 6
      /\ puts[o].ok = 0
      /\ puts[o].fail = (IF attempts[o] = 6 THEN 1 ELSE 0)
      /\ InFlight(o) = (IF attempts[o] = 6 THEN 0 ELSE 1)

\* C3 witness: a request failed 6 times with IOError and its failure entry
\* is on the completion queue.
C3_Witness ==
  \E o \in 1..lim.objs :
    /\ lastOut[o] = "ioerror"
    /\ attempts[o] = 6
    /\ \E e \in done : e.kind = "exc" /\ e.obj = o /\ e.exc = "IOError"

\* C2, as stated: retrieve(id) returns true exactly when id was tracked at
\* the time of the call.
C2_TrueExactlyOnHit ==
  (lastOp.op = "retrieve" /\ lastOp.ret # "raised") =>
    ((lastOp.ret = "True") <=> lastOp.hit)

\* C2, amended: whenever retrieve(id) returns, it returns False exactly when
\* id was tracked at the time of the call (hit, no fetch issued) and True
\* exactly when id was not tracked and a fetch was issued (miss).
C2_FalseExactlyOnHit ==
  (lastOp.op = "retrieve" /\ lastOp.ret # "raised") =>
    /\ (lastOp.ret = "False") <=> (lastOp.hit /\ lastOp.calls = 0)
    /\ (lastOp.ret = "True") <=> (~lastOp.hit /\ lastOp.calls = 1)

\* C2 witness: a retrieve of a tracked id returned, and the retrieve before
\* it was a miss.
C2_Witness ==
  /\ lastOp.op = "retrieve" /\ lastOp.hit /\ lastOp.ret = "False"
  /\ prevOp.op = "retrieve" /\ ~prevOp.hit

\* The claim's LRU case: the cache started empty, max_items = K > 0 with
\* the other limits off, and N > K distinct ids were retrieved, each fetch
\* succeeding (hist).
LruCase ==
  /\ policies.max_items > 0
  /\ policies.max_cache_size = 0
  /\ policies.min_free_space = 0
  /\ Len(hist) > policies.max_items

LastK(q, k) == SubSeq(q, Len(q) - k + 1, Len(q))

C5_SecondRetrieveIsHit ==
  (/\ lastOp.op = "retrieve" /\ prevOp.op = "retrieve"
   /\ prevOp.item = lastOp.item
   /\ ~prevOp.hit /\ prevOp.fetch = "ok") =>
    /\ lastOp.hit
    /\ prevOp.calls + lastOp.calls = 1

\* C5 witness: retrieve(id) was called twice in a row for an untracked id
\* whose fetch succeeded.
C5_Witness ==
  /\ lastOp.op = "retrieve" /\ prevOp.op = "retrieve"
  /\ prevOp.item = lastOp.item
  /\ ~prevOp.hit /\ prevOp.fetch = "ok" /\ prevOp.calls = 1

TrackedSize == Sum([i \in DOMAIN cstate |-> sizes[cstate[i]]])

\* C6: with max_cache_size = M > 0, whenever trim() returns (called by the
\* constructor, directly, or by the context exit) the file sizes of the ids
\* left in the LRU state sum to at most M. This holds for every starting
\* state and blob sizes, also when a single blob is larger than M.
C6_SizeBound ==
  (/\ lastOp.op = "trim"
   /\ lastOp.ret # "raised"
   /\ policies.max_cache_size > 0) =>
    TrackedSize <= policies.max_cache_size

\* C6 witness: only max_cache_size is set, no blob is larger than it, and a
\* trim evicted some entries and kept others.
C6_Witness ==
  /\ lastOp.op = "trim"
  /\ lastOp.n > 0
  /\ cstate # <<>>
  /\ policies.max_cache_size > 0
  /\ policies.min_free_space = 0
  /\ policies.max_items = 0
  /\ \A f \in Ids : sizes[f] <= policies.max_cache_size

\* Every path under the tree root that is a file or a directory.
TreeNodes ==
  {tfiles[l] : l \in {x \in Locs : tfiles[x].kind = "file"}}
  \cup {tdirs[d] : d \in {x \in Dirs : tdirs[x].kind = "dir"}}

\* C7: every way run_tha_test finishes after it created the tree root, with
\* no removal attempt having failed, ends with the tree root removed.
C7_RootRemovedAtFinish ==
  (rpc \in {"done", "end"} /\ root # "none" /\ rm.failed = 0) =>
    root = "removed"

\* C8: load_manifest ends with ConfigError for every input that is not a
\* JSON object, has an unknown top-level key, has a files entry with an
\* unknown key or with both sha-1 and link, or has a sha-1 value that is not
\* a 40-hex-character string.
C8_Invalid ==
  \/ content.kind # "dict"
  \/ \E i \in DOMAIN content.items :
       LET it == content.items[i] IN
       \/ it.key \notin {"command", "files", "read_only", "relative_cwd"}
       \/ /\ it.key = "files"
          /\ \E j \in DOMAIN it.entries :
               LET e == it.entries[j] IN
               \/ \E k \in DOMAIN e.props :
                    e.props[k].k \notin {"link", "mode", "sha-1", "timestamp"}
               \/ HasProp(e, "sha-1") /\ HasProp(e, "link")
               \/ \E k \in DOMAIN e.props :
                    e.props[k].k = "sha-1" /\ e.props[k].v # "hex40"
C8_InvalidRaisesConfigError ==
  (loaded # "none" /\ C8_Invalid) => loaded = "ConfigError"

\* C9: when the child exited with code c and the tree was removed without
\* error, run_tha_test returns c, and so does main.
C9_ExitCodePassthrough ==
  (child.st = "exited" /\ root = "removed" /\ rm.failed = 0) =>
    /\ rpc \in {"done", "end"} => result = Return(child.code)
    /\ rpc = "end" => mainRet = Return(child.code)

\* C9 witness: a populated tree, a child that exited with a code other than
\* 0 and 1, the tree removed, and that code returned by main.
C9_Witness ==
  /\ rpc = "end"
  /\ manifest.nfiles > 0
  /\ lastOp.op = "trim"
  /\ prevOp.op = "retrieve"
  /\ child = [st |-> "exited", code |-> 3]
  /\ root = "removed"
  /\ result = Return(3)
  /\ mainRet = Return(3)

\* C10: with read_only true, when the command is spawned every file and
\* directory under the tree root has its write bit cleared; and when
\* removal of the tree is attempted every one of them is writable again.
C10_ReadOnlyTree ==
  /\ (rpc = "spawn" /\ manifest.read_only) => \A n \in TreeNodes : ~n.w
  /\ rpc = "rmtree" => \A n \in TreeNodes : n.w

\* C10 witness: a read-only run whose command has exited, about to remove a
\* tree that has a file in a subdirectory, both writable again.
C10_Witness ==
  /\ rpc = "rmtree"
  /\ manifest.read_only
  /\ child.st = "exited"
  /\ \E l \in Locs : tfiles[l].kind = "file" /\ tfiles[l].w /\ DirOf(l) = "d"
  /\ tdirs["d"] = [kind |-> "dir", w |-> TRUE]

\* C11, as stated: a get_result() made while a request with a smaller
\* (priority, index) has not completed does not return the completed one.
C11_LargerWithheld == ~lastResult.early

\* C11: get_result() takes an entry that no entry on the completion queue
\* precedes in (priority, index) order, whatever has not completed yet.
C11_TakesSmallestCompleted ==
  [][\A r \in done :
       done' = done \ {r} => \A f \in done : ~Before(f, r)]_vars

\* C11 witness: of two requests of the same priority the second completed
\* first and get_result() returned it while the first was not completed.
C11_Witness ==
  /\ lastResult.early
  /\ lastResult.outcome = "returned"
  /\ lastResult.obj = 2
  /\ attempts[1] = 0
  /\ \E i \in Outstanding : i.obj = 1 /\ i.idx = 0

\* C12: when the completion queue holds a failure entry, the entry the next
\* get_result() takes is a failure entry.
C12_FailureFirst ==
  [][\A r \in done :
       (done' = done \ {r} /\ \E f \in done : f.kind = "exc")
         => r.kind = "exc"]_vars

\* C12 witness: get_result() took a failure entry from a completion queue
\* that held the entry of a success, which is still there.
C12_Witness ==
  /\ lastResult.passed
  /\ lastResult.kind = "exc"
  /\ \E f \in done : f.kind = "obj"

\* C13: once the Cache is constructed, after every retrieve(), trim() and
\* context exit, every id of the LRU state has a file at cache_dir/<id>.
C13_TrackedHaveFiles ==
  cphase \in {"open", "closed"} => Range(cstate) \subseteq cfiles

\* C13 witness: a cache constructed over a state.json that named a missing
\* file, now tracking the files that are there.
C13_Witness ==
  /\ cphase = "open"
  /\ lastOp.op = "trim"
  /\ prevOp.op = "none"
  /\ cstate # <<>>
  /\ Range(cstate) \subseteq cfiles
  /\ \E f \in Ids : f \notin cfiles /\ f \notin Range(cstate)

\* C14: after every retrieve() and after every trim(), state.json holds the
\* in-memory LRU list.
C14_StateSaved ==
  lastOp.op \in {"retrieve", "trim"} => cjson = cstate

\* C14 witness: a retrieve() whose fetch failed, after which state.json
\* holds the list, which tracks another id.
C14_Witness ==
  /\ lastOp.op = "retrieve"
  /\ lastOp.fetch = "failed"
  /\ lastOp.item \notin Range(cstate)
  /\ cstate # <<>>
  /\ cjson = cstate

\* C15: a trim() called right after a trim() leaves the LRU state,
\* state.json and the blob files as the first call left them.
C15_SecondTrimChangesNothing ==
  [][(cphase = "open" /\ lastOp.op = "trim" /\ lastOp'.op = "trim"
      /\ prevOp' = Prev(lastOp))
       => (cstate' = cstate /\ cjson' = cjson /\ cfiles' = cfiles)]_vars

\* C16: when the child exited with code c and removal of the tree root then
\* failed, run_tha_test still delivers c.
C16_CodeSurvivesRemovalFailure ==
  (rpc \in {"done", "end"} /\ child.st = "exited" /\ rm.failed > 0
   /\ root = "present") => result = Return(child.code)

\* C17: when run_tha_test raises ConfigError, no blob has been retrieved
\* into the cache, no file has been placed in the tree and the command has
\* not been executed.
C17_ConfigErrorBeforeWork ==
  (rpc = "finally" /\ pending = Raise("ConfigError")) =>
    /\ lastOp.op # "retrieve"
    /\ \A l \in Locs : tfiles[l] = Absent
    /\ child.st = "none"

\* C18: link_file never returns normally for a destination that exists: no
\* sha-1 entry gets past it at a path that is still the link it was.
C18_ExistingDestinationRaises ==
  ~(rpc = "chmod" /\ cur.typ = "sha-1" /\ tfiles[cur.loc].kind = "link")

\* C19: the pool never holds more than MAX_WORKERS threads and never
\* shrinks, and every thread of the pool is still in the loop of _run (at
\* its top, waiting on the queue, or serving an item): no worker exits,
\* a fetch that raised included.
C19_PoolBoundedNoExit ==
  /\ [](/\ workers <= MAX_WORKERS
        /\ wStart + wWait + Cardinality(wBusy) = workers)
  /\ [][workers' >= workers]_vars

\* A pool one short of MAX_WORKERS has grown to MAX_WORKERS, a fetch has
\* been retried and has then raised, and every thread is back in the loop.
C19_Witness ==
  /\ lim.index = (MAX_WORKERS - 1 - INITIAL_WORKERS) + PoolIndex
  /\ workers = MAX_WORKERS
  /\ attempts[1] = 2
  /\ lastOut[1] = "other"
  /\ puts[1].fail = 1
  /\ wBusy = {}
  /\ wStart + wWait = MAX_WORKERS

\* The items whose index is taken and whose self._queue.put is still to come.
NotYetPut ==
  {w.next : w \in {x \in wBusy : x.st = "refetch"}}
  \cup (IF caller.pc = "put" THEN {caller.item} ELSE {})

\* C20: among items of equal priority the one whose _fetch call came first
\* (the smaller index) is dequeued first: a worker never holds a freshly
\* dequeued item while one of the same priority and a smaller index is
\* still to be put.
C20_EqualPriorityFifo ==
  \A w \in wBusy :
    w.st = "got" =>
      ~\E i \in NotYetPut : i.pri = w.item.pri /\ i.idx < w.item.idx

\* The retry counter and the class of a priority: its low 8 bits, and the
\* rest.
RetriesOf(pri) == BitAnd(pri, INTERNAL_PRIORITY_BITS)
ClassOf(pri) == pri - RetriesOf(pri)

C22_FailedFetchNotTracked ==
  (lastOp.op = "retrieve" /\ ~lastOp.hit /\ lastOp.fetch = "failed")
    => lastOp.item \notin Range(cstate)

\* C23 as stated: cache.retrieve() has been called for every sha-1 of the
\* manifest before the first file is placed in the tree, so run_tha_test
\* is never about to retrieve an id it has not retrieved yet while the
\* tree holds a file.
C23_AllRetrievedBeforeFirstLink ==
  ~(/\ rpc = "retrieve"
    /\ cur.sha \notin Range(cstate)
    /\ \E l \in Locs : tfiles[l].kind = "file")

\* C23: a file is placed in the tree only by the link_file of the entry
\* whose sha-1 the call of cache.retrieve() just before it was given.
C23_RetrievedBeforeOwnLink ==
  [][\A l \in Locs :
       (tfiles[l].kind # "file" /\ tfiles'[l].kind = "file")
         => /\ rpc = "link"
            /\ l = cur.loc
            /\ lastOp.op = "retrieve"
            /\ lastOp.item = cur.sha]_vars

\* Two files are in the tree, the second placed after a retrieve() that
\* missed while the first was there already.
C23_Witness ==
  /\ rpc = "chmod"
  /\ \A l \in {1, 2} : tfiles[l].kind = "file"
  /\ lastOp.op = "retrieve"
  /\ ~lastOp.hit
  /\ lastOp.item = cur.sha
  /\ Len(cstate) = 2

\* C24: rmtree makes at most 3 attempts, and when every attempt has failed
\* it leaves with an exception: what run_tha_test then delivers is a raise,
\* not a return value.
C24_RaisesAfterLastAttempt ==
  /\ rm.tries <= RMTREE_ATTEMPTS
  /\ (rpc = "exit" /\ rm.failed > 0 /\ rm.failed = rm.tries)
       => pending.kind = "raise"

\* C25: once the fetch of an object has raised an exception other than
\* IOError, no item of the object is outstanding and none is attempted
\* again, one failure entry and no success entry has been put for it, the
\* entry has priority -1, and every thread of the pool is still in the
\* loop of _run.
C25_OtherExceptionNotRetried ==
  /\ [](\A o \in 1..lim.objs :
          lastOut[o] = "other" =>
            /\ puts[o] = [ok |-> 0, fail |-> 1]
            /\ \A i \in Outstanding : i.obj # o
            /\ \A r \in done :
                 r.obj = o =>
                   r.kind = "exc" /\ r.exc = "Other" /\ r.pri = EXC_PRIORITY
            /\ wStart + wWait + Cardinality(wBusy) = workers)
  /\ [][\A o \in 1..lim.objs :
          lastOut[o] = "other" =>
            attempts'[o] = attempts[o] /\ lastOut'[o] = "other"]_vars

\* The first attempt at object 1 raised, its failure entry is on
\* self._done, and object 2 has been served after that by a pool in which
\* no thread is missing.
C25_Witness ==
  /\ lastOut[1] = "other"
  /\ attempts[1] = 1
  /\ \E r \in done : r.obj = 1 /\ r.pri = EXC_PRIORITY
  /\ lastOut[2] = "ok"
  /\ \E r \in done : r.obj = 2 /\ r.idx > 1
  /\ wBusy = {}
  /\ wStart + wWait = workers

\* The position of id f in the list st that holds it.
PosOf(st, f) == CHOOSE k \in 1..Len(st) : st[k] = f

TrimStart == IF cphase = "open" THEN cstate ELSE cjson

\* C27: after a trim, every id it adopted that is still in the LRU state
\* sits ahead of every id that was tracked before (and had its file), and
\* an adopted id is still in the state only if every id tracked before is:
\* the evictions of the trim take the adopted ids first.
C27_AdoptedAreOldest ==
  [][(lastOp'.op = "trim" /\ prevOp' = Prev(lastOp)) =>
       \A a \in lastOp'.adopted :
         \A t \in Range(DropLost(TrimStart, cfiles)) :
           a \in Range(cstate') =>
             /\ t \in Range(cstate')
             /\ PosOf(cstate', a) < PosOf(cstate', t)]_vars

\* A trim adopted a file, evicted it and deleted it, and kept the id that
\* was tracked before.
C27_Witness ==
  /\ lastOp.op = "trim"
  /\ prevOp.op = "retrieve"
  /\ prevOp.fetch = "ok"
  /\ lastOp.adopted # {}
  /\ lastOp.n = 1
  /\ lastOp.adopted \cap cfiles = {}
  /\ cstate = <<prevOp.item>>

\* C28: a trim makes at most as many evictions as the LRU state has
\* entries once the files are adopted, and each eviction takes one entry
\* off the front: what is left is the list without its first n entries,
\* also when os.remove fails and when min_free_space cannot be reached.
C28_EvictionsBounded ==
  [][(lastOp'.op = "trim" /\ prevOp' = Prev(lastOp)) =>
       /\ lastOp'.n <= Cardinality(cfiles)
       /\ \E ls \in Orders(cfiles \ Range(TrimStart)) :
            LET st == Adopt(DropLost(TrimStart, cfiles), ls) IN
            cstate' = SubSeq(st, lastOp'.n + 1, Len(st))]_vars

\* min_free_space is more than the disk holds and a deletion failed: the
\* trim has evicted both entries and returned.
C28_Witness ==
  /\ lastOp.op = "trim"
  /\ lastOp.ret = "none"
  /\ policies.min_free_space > DiskSize
  /\ lastOp.n = 2
  /\ cstate = <<>>
  /\ cfiles # {}

\* The entries put on self._done for object o so far.
Completed(o) == puts[o].ok + puts[o].fail

C30_TrackedAreTheFiles ==
  (lastOp.op = "trim" /\ lastOp.ret = "none") => Range(cstate) = cfiles

====
